---- MODULE Spec2Model ----
(***************************************************************************)
(* Client side of the storage-deal negotiation:                            *)
(*   - pieceio: the piece preparation pipeline, streaming mode             *)
(*     (pieceIO.GeneratePieceCommitment) and disk-buffered mode            *)
(*     (pieceIOWithStore.GeneratePieceCommitmentToFile);                   *)
(*   - storageimpl: the Client facade (ProposeStorageDeal) and the         *)
(*     connection registry (clientDealEnvironment.DealStream/CloseStream). *)
(***************************************************************************)
EXTENDS Integers, Sequences, FiniteSets, TLC

(***************************************************************************)
(* Bounds of the model.                                                    *)
(***************************************************************************)
\* longest archive (CAR) encoding, in bytes
MaxCarLen == 2
\* byte values are 0..MaxByte
MaxByte == 1
\* bytes the pipe buffers before a write blocks
PipeCap == 1

Byte == 0..MaxByte
Cars == UNION {[1..n -> Byte] : n \in 0..MaxCarLen}

\* error values; NoErr is Go's nil error
NoErr == "nil"
Undef == <<"cid.Undef">>

(***************************************************************************)
(* padreader / abi size arithmetic used by GeneratePieceCommitment.        *)
(***************************************************************************)
\* every 127 bytes of data take 128 bytes of piece
Quantum == 127

\* abi.PaddedPieceSize.Unpadded: s - s/128
Unpadded(s) == s - (s \div (Quantum + 1))

\* abi.UnpaddedPieceSize.Padded: s + s/127
Padded(s) == s + (s \div Quantum)

\* the smallest power of two that is at least n
NextPow2(n) ==
    LET k == CHOOSE k \in 0..30 : 2^k >= n /\ (k = 0 \/ 2^(k - 1) < n)
    IN  2^k

\* padreader.PaddedSize: the unpadded size of the smallest power-of-two piece
\* that holds `size` bytes
PaddedSize(size) ==
    IF size <= Quantum THEN Quantum
    ELSE Unpadded(NextPow2(((size + Quantum - 1) \div Quantum) * (Quantum + 1)))

Zeros(n) == [i \in 1..n |-> 0]

\* padreader.New(rd, pieceSize): at most pieceSize bytes of rd, then zeros up
\* to the padded size; `avail` is what rd yields before EOF
PaddedReader(avail, pieceSize) ==
    LET data == SubSeq(avail, 1, IF Len(avail) < pieceSize THEN Len(avail) ELSE pieceSize)
    IN  data \o Zeros(PaddedSize(pieceSize) - pieceSize)

\* seq without its trailing zeros
StripZeros(seq) ==
    LET nz == {i \in 1..Len(seq) : seq[i] # 0}
    IN  IF nz = {} THEN <<>>
        ELSE SubSeq(seq, 1, CHOOSE i \in nz : \A j \in nz : j <= i)

\* ffiwrapper.GeneratePieceCIDFromFile: the commitment binds the whole padded
\* stream: it is modelled as an injective function of the stream, its length
\* with its content up to the trailing zeros; a stream shorter than
\* paddedSize is an error
PieceCID(stream) == <<"commP", Len(stream), StripZeros(stream)>>

Ret(c, s, e) == [cid |-> c, size |-> s, err |-> e]

\* GeneratePieceCommitment(rt, rd, pieceSize); `fail` is the commitment
\* function failing for a reason of its own
GeneratePieceCommitment(avail, pieceSize, fail) ==
    LET stream == PaddedReader(avail, pieceSize)
        paddedSize == PaddedSize(pieceSize)
    IN  IF fail \/ Len(stream) < paddedSize
        THEN Ret(Undef, 0, "ECommit")
        ELSE Ret(PieceCID(stream), paddedSize, NoErr)

VARIABLES
    car,        \* the archive encoding of (payloadCid, selector)
    \* ---- streaming mode: pieceIO.GeneratePieceCommitment
    spc,        \* position of the calling task
    ppc,        \* position of the producer task ("none" before `go`)
    pieceSize,  \* preparedCar.Size()
    pipe,       \* bytes written to w and not yet read from r
    rOpen,      \* read end r is open
    wOpen,      \* write end w is open
    dumped,     \* number of bytes Dump has written
    rbuf,       \* bytes the commitment computation has read from r
    werr,       \* the producer's captured error
    perrs,      \* what Dump (line 72) and w.Close() (line 73) returned
    cres,       \* (commitment, paddedSize, err) of line 78
    closeErr,   \* result of r.Close()
    sres,       \* what the call returned
    \* ---- disk-buffered mode: pieceIOWithStore.GeneratePieceCommitmentToFile
    dpc,        \* position of the call
    store,      \* file store: path -> content, for the paths that exist
    fPath,      \* f.Path()
    fOpen,      \* f is open
    fPos,       \* read/write offset of f
    dSize,      \* pieceSize of line 109
    closed,     \* f.Close() has been called
    fcloseErr,  \* what f.Close() returned ("none" before it is called)
    deleted,    \* store.Delete(f.Path()): "no" (not called), "ok" or "failed"
    dres,       \* what the call returned: [cid, path, size, err]
    \* ---- storageimpl.Client
    deals,      \* the engine's deal records: proposal cid -> ClientDeal
    conns,      \* c.conns: proposal cid -> stream (an index of streams)
    connsLk,    \* c.connsLk: the writer holding it and the readers holding it
    streams,    \* every deal stream opened so far, in order of opening
    pd,         \* ProposeStorageDeal: each client's running or last call
    ncalls,     \* number of ProposeStorageDeal calls made so far
    begun,      \* per deal: the record as Begin first stored it
    hpc,        \* per deal: position of the engine's handling of the open event
    rc,         \* DealStream / CloseStream: each caller's running or last call
    sent,       \* per deal: the calls that sent it the open event
    removed,    \* per deal: a CloseStream completed and no put followed
    \* ---- Client.GetAsk
    askStreams, \* every ask stream opened so far, in order of opening
    ga,         \* GetAsk: the running or last call
    nasks,      \* number of GetAsk calls made so far
    \* ---- Client.ListProviders
    lp,         \* ListProviders: the call and its goroutine
    received,   \* what the reader of the channel `out` has received
    outClosed,  \* close(out) has run
    ctxDone     \* the caller's context has been cancelled

streamVars == <<spc, ppc, pieceSize, pipe, rOpen, wOpen, dumped, rbuf, werr, perrs, cres, closeErr, sres>>
diskVars == <<dpc, store, fPath, fOpen, fPos, dSize, closed, fcloseErr, deleted, dres>>
pieceVars == <<car, streamVars, diskVars>>
askVars == <<askStreams, ga, nasks>>
listVars == <<lp, received, outClosed, ctxDone>>
queryVars == <<askVars, listVars>>
clientVars == <<deals, conns, connsLk, streams, pd, ncalls, begun, hpc, rc, sent, removed, queryVars>>
vars == <<pieceVars, clientVars>>

NoRet == [cid |-> Undef, size |-> 0, err |-> "pending"]

InitStream ==
    /\ spc = "start" /\ ppc = "none" /\ pieceSize = 0
    /\ pipe = <<>> /\ rOpen = FALSE /\ wOpen = FALSE
    /\ dumped = 0 /\ rbuf = <<>> /\ werr = NoErr
    /\ perrs = [dump |-> "pending", close |-> "pending"]
    /\ cres = NoRet /\ closeErr = NoErr /\ sres = NoRet

(***************************************************************************)
(* Streaming mode, calling task.                                           *)
(***************************************************************************)
SReturn(r) == sres' = r /\ spc' = "returned"

\* PrepareCar taking a size one short of what Dump writes
PrepareCarShortSize ==
    /\ spc = "start"
    /\ \E ok \in BOOLEAN :
         IF ok THEN /\ pieceSize' = IF Len(car) > 0 THEN Len(car) - 1 ELSE 0
                    /\ spc' = "pipe"
                    /\ sres' = sres
               ELSE /\ SReturn(Ret(Undef, 0, "EPrepare"))
                    /\ pieceSize' = pieceSize
    /\ UNCHANGED <<car, ppc, pipe, rOpen, wOpen, dumped, rbuf, werr, perrs, cres, closeErr, diskVars, clientVars>>

\* lines 58-62
PrepareCar ==
    /\ spc = "start"
    /\ \E ok \in BOOLEAN :
         IF ok THEN /\ pieceSize' = Len(car)
                    /\ spc' = "pipe"
                    /\ sres' = sres
               ELSE /\ SReturn(Ret(Undef, 0, "EPrepare"))
                    /\ pieceSize' = pieceSize
    /\ UNCHANGED <<car, ppc, pipe, rOpen, wOpen, dumped, rbuf, werr, perrs, cres, closeErr, diskVars, clientVars>>

\* lines 63-66
OsPipe ==
    /\ spc = "pipe"
    /\ \E ok \in BOOLEAN :
         IF ok THEN /\ rOpen' = TRUE /\ wOpen' = TRUE
                    /\ spc' = "go"
                    /\ sres' = sres
               ELSE /\ SReturn(Ret(Undef, 0, "EPipeCreate"))
                    /\ UNCHANGED <<rOpen, wOpen>>
    /\ UNCHANGED <<car, ppc, pieceSize, pipe, dumped, rbuf, werr, perrs, cres, closeErr, diskVars, clientVars>>

\* lines 67-70: stop.Add(1); go func() {...}
GoProducer ==
    /\ spc = "go"
    /\ ppc' = "dump"
    /\ spc' = "commit"
    /\ UNCHANGED <<car, pieceSize, pipe, rOpen, wOpen, dumped, rbuf, werr, perrs, cres, closeErr, sres, diskVars, clientVars>>

\* line 78, the padded reader taking one byte from r
ConsumerRead ==
    /\ spc = "commit"
    /\ Len(rbuf) < pieceSize
    /\ pipe # <<>>
    /\ rbuf' = Append(rbuf, Head(pipe))
    /\ pipe' = Tail(pipe)
    /\ UNCHANGED <<car, spc, ppc, pieceSize, rOpen, wOpen, dumped, werr, perrs, cres, closeErr, sres, diskVars, clientVars>>

\* line 78 returning: the reader has the declared bytes, or met EOF (pipe
\* drained and write end closed), or the commitment function failed
ConsumerDone ==
    /\ spc = "commit"
    /\ \E fail \in BOOLEAN :
         /\ \/ fail
            \/ Len(rbuf) = pieceSize
            \/ pipe = <<>> /\ ~wOpen
         /\ cres' = GeneratePieceCommitment(rbuf, pieceSize, fail)
    /\ spc' = "rclose"
    /\ UNCHANGED <<car, ppc, pieceSize, pipe, rOpen, wOpen, dumped, rbuf, werr, perrs, closeErr, sres, diskVars, clientVars>>

\* the read end left open when the consumer failed
CloseReadSkippedOnError ==
    /\ spc = "rclose"
    /\ rOpen' = (cres.err # NoErr)
    /\ \E e \in {NoErr, "ERClose"} : closeErr' = IF cres.err # NoErr THEN NoErr ELSE e
    /\ spc' = "check"
    /\ UNCHANGED <<car, ppc, pieceSize, pipe, wOpen, dumped, rbuf, werr, perrs, cres, sres, diskVars, clientVars>>

\* line 79: closeErr := r.Close()
CloseRead ==
    /\ spc = "rclose"
    /\ rOpen' = FALSE
    /\ \E e \in {NoErr, "ERClose"} : closeErr' = e
    /\ spc' = "check"
    /\ UNCHANGED <<car, ppc, pieceSize, pipe, wOpen, dumped, rbuf, werr, perrs, cres, sres, diskVars, clientVars>>

\* the error checks with the close error tested first
CheckErrsCloseFirst ==
    /\ spc = "check"
    /\ IF closeErr # NoErr THEN SReturn(Ret(Undef, 0, closeErr))
       ELSE IF cres.err # NoErr THEN SReturn(Ret(Undef, 0, cres.err))
       ELSE spc' = "wait" /\ sres' = sres
    /\ UNCHANGED <<car, ppc, pieceSize, pipe, rOpen, wOpen, dumped, rbuf, werr, perrs, cres, closeErr, diskVars, clientVars>>

\* lines 80-85
CheckErrs ==
    /\ spc = "check"
    /\ IF cres.err # NoErr THEN SReturn(Ret(Undef, 0, cres.err))
       ELSE IF closeErr # NoErr THEN SReturn(Ret(Undef, 0, closeErr))
       ELSE spc' = "wait" /\ sres' = sres
    /\ UNCHANGED <<car, ppc, pieceSize, pipe, rOpen, wOpen, dumped, rbuf, werr, perrs, cres, closeErr, diskVars, clientVars>>

\* the join without the test of werr
WaitProducerDropWerr ==
    /\ spc = "wait"
    /\ ppc = "done"
    /\ SReturn(Ret(cres.cid, cres.size, NoErr))
    /\ UNCHANGED <<car, ppc, pieceSize, pipe, rOpen, wOpen, dumped, rbuf, werr, perrs, cres, closeErr, diskVars, clientVars>>

\* lines 86-90: stop.Wait() returns once the producer called stop.Done()
WaitProducer ==
    /\ spc = "wait"
    /\ ppc = "done"
    /\ IF werr # NoErr THEN SReturn(Ret(Undef, 0, werr))
       ELSE SReturn(Ret(cres.cid, cres.size, NoErr))
    /\ UNCHANGED <<car, ppc, pieceSize, pipe, rOpen, wOpen, dumped, rbuf, werr, perrs, cres, closeErr, diskVars, clientVars>>

(***************************************************************************)
(* Streaming mode, producer task (lines 70-77).                            *)
(***************************************************************************)
\* Dump writes the next byte of the archive to w; blocks while the pipe is full
DumpWrite ==
    /\ ppc = "dump"
    /\ dumped < Len(car)
    /\ rOpen
    /\ Len(pipe) < PipeCap
    /\ pipe' = Append(pipe, car[dumped + 1])
    /\ dumped' = dumped + 1
    /\ UNCHANGED <<car, spc, ppc, pieceSize, rOpen, wOpen, rbuf, werr, perrs, cres, closeErr, sres, diskVars, clientVars>>

\* Dump ending with one more write to w after the last byte
DumpReturnTrailingWrite ==
    /\ ppc = "dump"
    /\ \/ dumped = Len(car) /\ rOpen /\ werr' = NoErr
       \/ ~rOpen /\ werr' = "EPIPE"
       \/ werr' = "EDump"
    /\ perrs' = [perrs EXCEPT !.dump = werr']
    /\ ppc' = "wclose"
    /\ UNCHANGED <<car, spc, pieceSize, pipe, rOpen, wOpen, dumped, rbuf, cres, closeErr, sres, diskVars, clientVars>>

\* line 72 returning: all bytes written, or a write met the closed read end
\* (EPIPE), or the encoder failed
DumpReturn ==
    /\ ppc = "dump"
    /\ \/ dumped = Len(car) /\ werr' = NoErr
       \/ dumped < Len(car) /\ ~rOpen /\ werr' = "EPIPE"
       \/ werr' = "EDump"
    /\ perrs' = [perrs EXCEPT !.dump = werr']
    /\ ppc' = "wclose"
    /\ UNCHANGED <<car, spc, pieceSize, pipe, rOpen, wOpen, dumped, rbuf, cres, closeErr, sres, diskVars, clientVars>>

\* lines 73-76 and the deferred stop.Done()
CloseWrite ==
    /\ ppc = "wclose"
    /\ wOpen' = FALSE
    /\ \E e \in {NoErr, "EWClose"} :
         /\ werr' = IF werr = NoErr /\ e # NoErr THEN e ELSE werr
         /\ perrs' = [perrs EXCEPT !.close = e]
    /\ ppc' = "done"
    /\ UNCHANGED <<car, spc, pieceSize, pipe, rOpen, dumped, rbuf, cres, closeErr, sres, diskVars, clientVars>>

(***************************************************************************)
(* Disk-buffered mode: pieceIOWithStore.GeneratePieceCommitmentToFile.     *)
(***************************************************************************)
\* a file that is in the store before the call, and the one CreateTemp makes
OtherPath == "fstmp0"
TempPath == "fstmp1"
NoPath == ""

InitDisk ==
    /\ dpc = "start"
    /\ store = [p \in {OtherPath} |-> <<>>]
    /\ fPath = NoPath /\ fOpen = FALSE /\ fPos = 0 /\ dSize = 0
    /\ closed = FALSE /\ fcloseErr = "none" /\ deleted = "no"
    /\ dres = [cid |-> Undef, path |-> NoPath, size |-> 0, err |-> "pending"]

DRet(c, p, s, e) == [cid |-> c, path |-> p, size |-> s, err |-> e]
DReturn(r) == dres' = r /\ dpc' = "returned"

\* a file store without path p
Without(st, p) == [q \in DOMAIN st \ {p} |-> st[q]]

\* lines 99-102: f.Close() and store.Delete(f.Path()), both results dropped;
\* a Delete that fails leaves the file in the store
cleanup ==
    /\ fOpen' = FALSE
    /\ closed' = TRUE
    /\ \E e \in {NoErr, "EFClose"} : fcloseErr' = e
    /\ \E delOk \in BOOLEAN :
         /\ store' = IF delOk THEN Without(store, fPath) ELSE store
         /\ deleted' = IF delOk THEN "ok" ELSE "failed"

\* lines 94-98
CreateTemp ==
    /\ dpc = "start"
    /\ \E ok \in BOOLEAN :
         IF ok THEN /\ store' = [p \in DOMAIN store \cup {TempPath} |->
                                   IF p = TempPath THEN <<>> ELSE store[p]]
                    /\ fPath' = TempPath /\ fOpen' = TRUE /\ fPos' = 0
                    /\ dpc' = "write" /\ dres' = dres
               ELSE /\ DReturn(DRet(Undef, NoPath, 0, "ECreateTemp"))
                    /\ UNCHANGED <<store, fPath, fOpen, fPos>>
    /\ UNCHANGED <<car, streamVars, clientVars, dSize, closed, fcloseErr, deleted>>

\* lines 104-109: WriteCar writes the archive to f, or a prefix of it and
\* fails; then pieceSize := f.Size()
WriteCar ==
    /\ dpc = "write"
    /\ \E n \in 0..Len(car), ok \in BOOLEAN :
         /\ ok => n = Len(car)
         /\ IF ok
            THEN /\ store' = [store EXCEPT ![fPath] = SubSeq(car, 1, n)]
                 /\ fPos' = n
                 /\ dSize' = n
                 /\ dpc' = "seek" /\ dres' = dres
                 /\ UNCHANGED <<fOpen, closed, fcloseErr, deleted>>
            ELSE /\ cleanup
                 /\ DReturn(DRet(Undef, NoPath, 0, "EWriteCar"))
                 /\ UNCHANGED <<fPos, dSize>>
    /\ UNCHANGED <<car, streamVars, clientVars, fPath>>

\* the seek failure exit without cleanup()
SeekStartNoCleanup ==
    /\ dpc = "seek"
    /\ \E ok \in BOOLEAN :
         IF ok THEN /\ fPos' = 0
                    /\ dpc' = "commit" /\ dres' = dres
               ELSE /\ DReturn(DRet(Undef, NoPath, 0, "ESeek"))
                    /\ fPos' = fPos
    /\ UNCHANGED <<car, streamVars, clientVars, store, fOpen, closed, fcloseErr, deleted, fPath, dSize>>

\* lines 110-114: f.Seek(0, io.SeekStart)
SeekStart ==
    /\ dpc = "seek"
    /\ \E ok \in BOOLEAN :
         IF ok THEN /\ fPos' = 0
                    /\ dpc' = "commit" /\ dres' = dres
                    /\ UNCHANGED <<store, fOpen, closed, fcloseErr, deleted>>
               ELSE /\ cleanup
                    /\ DReturn(DRet(Undef, NoPath, 0, "ESeek"))
                    /\ fPos' = fPos
    /\ UNCHANGED <<car, streamVars, clientVars, fPath, dSize>>

\* what a reader of f gets from the current offset on
FileRest == SubSeq(store[fPath], fPos + 1, Len(store[fPath]))

\* lines 115-121
CommitFile ==
    /\ dpc = "commit"
    /\ \E fail \in BOOLEAN :
         LET r == GeneratePieceCommitment(FileRest, dSize, fail)
         IN  IF r.err # NoErr
             THEN /\ cleanup
                  /\ DReturn(DRet(Undef, NoPath, 0, r.err))
             ELSE \* _ = f.Close(): the result is dropped
                  /\ fOpen' = FALSE
                  /\ closed' = TRUE
                  /\ \E e \in {NoErr, "EFClose"} : fcloseErr' = e
                  /\ DReturn(DRet(r.cid, fPath, r.size, NoErr))
                  /\ UNCHANGED <<store, deleted>>
    /\ UNCHANGED <<car, streamVars, clientVars, fPath, fPos, dSize>>

DiskNext == CreateTemp \/ WriteCar \/ SeekStart \/ CommitFile

(***************************************************************************)
(* storageimpl.Client: the facade, the deal engine and the connection      *)
(* registry.                                                               *)
(***************************************************************************)
\* ProposeStorageDeal calls made in one behaviour
MaxProposals == 2

\* concurrent callers of ProposeStorageDeal
Clients == {"client1", "client2"}
\* data references (DataRef.Root) and the one-byte archive each encodes to
Datas == {1, 2}
DataCar(data) == <<data>>
\* the provider: its peer (info.PeerID) and its address (info.Address)
Peers == {"peerA"}
ProviderAddr == "t01000"
ClientAddr == "t0100"

NoCid == <<"no-cid">>
NoOne == "unlocked"

\* clientutils.CommP: the pipeline's commitment and size for the data
CommP(data) == GeneratePieceCommitment(DataCar(data), Len(DataCar(data)), FALSE)

\* the proposal with the collateral set to the padded size
DealProposalPaddedCollateral(commP, size) ==
    [PieceCID |-> commP,
     PieceSize |-> Padded(size),
     Client |-> ClientAddr,
     Provider |-> ProviderAddr,
     ProviderCollateral |-> Padded(size),
     ClientCollateral |-> 0]

\* lines 203-213
DealProposal(commP, size) ==
    [PieceCID |-> commP,
     PieceSize |-> Padded(size),
     Client |-> ClientAddr,
     Provider |-> ProviderAddr,
     ProviderCollateral |-> size,
     ClientCollateral |-> 0]

\* lines 215-226: the identifier is derived from the signed proposal's
\* content alone
ProposalCid(proposal) == <<"cid", proposal>>

\* the proposal built for each data reference, and its identifier
ProposalOf == [d \in Datas |-> DealProposal(CommP(d).cid, CommP(d).size)]
CidOf == [d \in Datas |-> ProposalCid(ProposalOf[d])]
Cids == {CidOf[d] : d \in Datas}

\* callers of the registry: the engine's handler of each deal, and other
\* tasks holding the environment
Handler(d) == <<"handler", d>>
Handlers == {Handler(d) : d \in Cids}
FreeCallers == {<<"caller", 1>>, <<"caller", 2>>}
\* the first of them only tears streams down, the second also looks them up
CallerOps(t) == IF t = <<"caller", 1>> THEN {"CloseStream"} ELSE {"DealStream", "CloseStream"}
RegCallers == Handlers \cup FreeCallers

IdlePd == [pc |-> "idle", n |-> 0, data |-> 0, peer |-> "", cid |-> NoCid, s |-> 0, ret |-> "none"]
IdleRc == [op |-> "none", pc |-> "idle", id |-> NoCid, s |-> 0, ok |-> FALSE,
           err |-> "none", afterRemove |-> FALSE]

\* GetAsk calls made in one behaviour
MaxAsks == 2

\* miner addresses: the provider's and another miner's
OtherAddr == "t01001"
Addrs == {ProviderAddr, OtherAddr}

\* network.AskResponse: out.Ask is nil, or a signed ask naming a miner; signed
\* is whether the chain node accepts its signature
NoAsk == [has |-> FALSE, Miner |-> "", signed |-> FALSE]
AskResponses == {NoAsk} \cup {[has |-> TRUE, Miner |-> m, signed |-> b] : m \in Addrs, b \in BOOLEAN}

\* c.node.ValidateAskSignature(out.Ask)
ValidateAskSignature(ask) == IF ask.signed THEN NoErr ELSE "EBadSignature"

IdleGa == [pc |-> "idle", peer |-> "", addr |-> "", s |-> 0, out |-> NoAsk,
           ask |-> NoAsk, err |-> "none"]

InitAsk == askStreams = <<>> /\ ga = IdleGa /\ nasks = 0

\* longest provider list the chain node returns
MaxProviders == 3

\* storagemarket.StorageProviderInfo values, and the lists of them
ProviderInfos == {"infoA", "infoB"}
ProviderLists == UNION {[1..n -> ProviderInfos] : n \in 0..MaxProviders}

InitList ==
    /\ lp = [pc |-> "idle", providers |-> <<>>, i |-> 0]
    /\ received = <<>> /\ outClosed = FALSE /\ ctxDone = FALSE

\* NewClient, lines 71-105
InitClient ==
    /\ InitAsk
    /\ InitList
    /\ deals = <<>>
    /\ conns = <<>>
    /\ connsLk = [writer |-> NoOne, readers |-> {}]
    /\ streams = <<>>
    /\ pd = [c \in Clients |-> IdlePd]
    /\ ncalls = 0
    /\ begun = <<>>
    /\ hpc = [d \in Cids |-> "idle"]
    /\ rc = [t \in RegCallers |-> IdleRc]
    /\ sent = [d \in Cids |-> {}]
    /\ removed = [d \in Cids |-> FALSE]

\* a map with key k set to v
Put(m, k, v) == [x \in DOMAIN m \cup {k} |-> IF x = k THEN v ELSE m[x]]

(***************************************************************************)
(* The deal engine (fsm.Group).                                            *)
(***************************************************************************)
\* statemachines.Begin(id, deal): fails if id is already tracked
Begin(ds, id, deal) ==
    IF id \in DOMAIN ds
    THEN [deals |-> ds, err |-> "EBegin"]
    ELSE [deals |-> Put(ds, id, deal), err |-> NoErr]

\* lines 148-154: statemachines.Get(cid).Get(&out)
GetInProgressDeal(id) ==
    IF id \in DOMAIN deals THEN [deal |-> deals[id], err |-> NoErr]
    ELSE [deal |-> <<>>, err |-> "ENotFound"]

\* lines 140-146: statemachines.List(&out)
ListInProgressDeals == {deals[id] : id \in DOMAIN deals}

(***************************************************************************)
(* Client.ProposeStorageDeal, lines 187-258, called by client c.           *)
(***************************************************************************)
PReturn(c, e) == pd' = [pd EXCEPT ![c].pc = "returned", ![c].ret = e]

\* the call connecting to the provider before the proposal is signed
ProposeCallStreamFirst(c) ==
    /\ pd[c].pc \in {"idle", "returned"}
    /\ ncalls < MaxProposals
    /\ ncalls' = ncalls + 1
    /\ \E data \in Datas, peer \in Peers, out \in {"ok", "ECommP", "ESign", "EIpld"} :
         /\ pd' = [pd EXCEPT ![c] =
                     [pc |-> IF out = "ok" THEN "begin" ELSE "returned",
                      n |-> ncalls + 1, data |-> data, peer |-> peer,
                      cid |-> IF out = "ok" THEN CidOf[data] ELSE NoCid,
                      s |-> 0,
                      ret |-> IF out = "ok" THEN "pending" ELSE out]]
         /\ streams' = IF out \in {"ESign", "EIpld"}
                       THEN Append(streams, [peer |-> peer, by |-> ncalls + 1,
                                             open |-> TRUE, closes |-> 0])
                       ELSE streams
    /\ UNCHANGED <<pieceVars, queryVars, deals, conns, connsLk, begun, hpc, rc, sent, removed>>

\* the call, and lines 198-223: CommP, the proposal, SignProposal, AsIpld
ProposeCall(c) ==
    /\ pd[c].pc \in {"idle", "returned"}
    /\ ncalls < MaxProposals
    /\ ncalls' = ncalls + 1
    /\ \E data \in Datas, peer \in Peers, out \in {"ok", "ECommP", "ESign", "EIpld"} :
         pd' = [pd EXCEPT ![c] =
                  [pc |-> IF out = "ok" THEN "begin" ELSE "returned",
                   n |-> ncalls + 1, data |-> data, peer |-> peer,
                   cid |-> IF out = "ok" THEN CidOf[data] ELSE NoCid,
                   s |-> 0,
                   ret |-> IF out = "ok" THEN "pending" ELSE out]]
    /\ UNCHANGED <<pieceVars, queryVars, deals, conns, connsLk, streams, begun, hpc, rc, sent, removed>>

\* lines 225-232
ClientDeal(c) ==
    [ProposalCid |-> pd[c].cid,
     Proposal |-> ProposalOf[pd[c].data],
     State |-> "Unknown",
     Miner |-> pd[c].peer,
     DataRef |-> pd[c].data,
     by |-> pd[c].n]

\* Begin with its error dropped
ProposeBeginIgnoreErr(c) ==
    /\ pd[c].pc = "begin"
    /\ LET r == Begin(deals, pd[c].cid, ClientDeal(c))
       IN  /\ deals' = r.deals
           /\ pd' = [pd EXCEPT ![c].pc = "stream"]
    /\ begun' = IF pd[c].cid \in DOMAIN begun THEN begun
                ELSE Put(begun, pd[c].cid, ClientDeal(c))
    /\ UNCHANGED <<pieceVars, queryVars, conns, connsLk, streams, ncalls, hpc, rc, sent, removed>>

\* lines 234-237
ProposeBegin(c) ==
    /\ pd[c].pc = "begin"
    /\ LET r == Begin(deals, pd[c].cid, ClientDeal(c))
       IN  /\ deals' = r.deals
           /\ IF r.err # NoErr THEN PReturn(c, "EBegin")
              ELSE pd' = [pd EXCEPT ![c].pc = "stream"]
    /\ begun' = IF pd[c].cid \in DOMAIN begun THEN begun
                ELSE Put(begun, pd[c].cid, ClientDeal(c))
    /\ UNCHANGED <<pieceVars, queryVars, conns, connsLk, streams, ncalls, hpc, rc, sent, removed>>

\* the stream opened but never registered
NewDealStreamNoPut(c) ==
    /\ pd[c].pc = "stream"
    /\ \E ok \in BOOLEAN :
         IF ok
         THEN /\ streams' = Append(streams, [peer |-> pd[c].peer, by |-> pd[c].n,
                                             open |-> TRUE, closes |-> 0])
              /\ pd' = [pd EXCEPT ![c].pc = "send", ![c].s = Len(streams) + 1]
         ELSE /\ PReturn(c, "EStream")
              /\ streams' = streams
    /\ UNCHANGED <<pieceVars, queryVars, deals, conns, connsLk, ncalls, begun, hpc, rc, sent, removed>>

\* lines 239-242: c.net.NewDealStream(info.PeerID)
NewDealStream(c) ==
    /\ pd[c].pc = "stream"
    /\ \E ok \in BOOLEAN :
         IF ok
         THEN /\ streams' = Append(streams, [peer |-> pd[c].peer, by |-> pd[c].n,
                                             open |-> TRUE, closes |-> 0])
              /\ pd' = [pd EXCEPT ![c].pc = "lock", ![c].s = Len(streams) + 1]
         ELSE /\ PReturn(c, "EStream")
              /\ streams' = streams
    /\ UNCHANGED <<pieceVars, queryVars, deals, conns, connsLk, ncalls, begun, hpc, rc, sent, removed>>

LockFree == connsLk.writer = NoOne /\ connsLk.readers = {}

\* line 243: c.connsLk.Lock()
ProposeLock(c) ==
    /\ pd[c].pc = "lock"
    /\ LockFree
    /\ connsLk' = [connsLk EXCEPT !.writer = c]
    /\ pd' = [pd EXCEPT ![c].pc = "put"]
    /\ UNCHANGED <<pieceVars, queryVars, deals, conns, streams, ncalls, begun, hpc, rc, sent, removed>>

\* lines 244-245: c.conns[deal.ProposalCid] = s; c.connsLk.Unlock()
ProposePut(c) ==
    /\ pd[c].pc = "put"
    /\ conns' = Put(conns, pd[c].cid, pd[c].s)
    /\ connsLk' = [connsLk EXCEPT !.writer = NoOne]
    /\ removed' = [removed EXCEPT ![pd[c].cid] = FALSE]
    /\ rc' = [t \in RegCallers |->
                IF rc[t].id = pd[c].cid THEN [rc[t] EXCEPT !.afterRemove = FALSE] ELSE rc[t]]
    /\ pd' = [pd EXCEPT ![c].pc = "send"]
    /\ UNCHANGED <<pieceVars, queryVars, deals, streams, ncalls, begun, hpc, sent>>

\* lines 247-257: statemachines.Send(deal.ProposalCid, ClientEventOpen): the
\* engine queues the event for the deal's handler, or refuses it; then the
\* result, with discovery.AddPeer's error
ProposeSend(c) ==
    /\ pd[c].pc = "send"
    /\ \E e \in {"ok", "EAddPeer", "ESend"} :
         /\ PReturn(c, e)
         /\ IF e # "ESend"
            THEN /\ hpc' = [hpc EXCEPT ![pd[c].cid] = IF @ = "idle" THEN "queued" ELSE @]
                 /\ sent' = [sent EXCEPT ![pd[c].cid] = @ \cup {pd[c].n}]
            ELSE UNCHANGED <<hpc, sent>>
    /\ UNCHANGED <<pieceVars, queryVars, deals, conns, connsLk, streams, ncalls, begun, rc, removed>>

(***************************************************************************)
(* clientDealEnvironment.DealStream and CloseStream, called by caller t.   *)
(***************************************************************************)
RegCall(t, op, id) ==
    /\ rc[t].pc \in {"idle", "returned"}
    /\ rc' = [rc EXCEPT ![t] = [op |-> op, pc |-> IF op = "DealStream" THEN "rlock" ELSE "lock",
                                id |-> id, s |-> 0, ok |-> FALSE, err |-> "pending",
                                afterRemove |-> op = "DealStream" /\ removed[id]]]

\* the shared lock taken without waiting for the writer to release
DealStreamRLockNoWait(t) ==
    /\ rc[t].pc = "rlock"
    /\ connsLk' = [connsLk EXCEPT !.readers = @ \cup {t}]
    /\ rc' = [rc EXCEPT ![t].pc = "read"]
    /\ UNCHANGED <<pieceVars, queryVars, deals, conns, streams, pd, ncalls, begun, hpc, sent, removed>>

\* line 277: c.c.connsLk.RLock()
DealStreamRLock(t) ==
    /\ rc[t].pc = "rlock"
    /\ connsLk.writer = NoOne
    /\ connsLk' = [connsLk EXCEPT !.readers = @ \cup {t}]
    /\ rc' = [rc EXCEPT ![t].pc = "read"]
    /\ UNCHANGED <<pieceVars, queryVars, deals, conns, streams, pd, ncalls, begun, hpc, sent, removed>>

\* lines 278-283: s, ok := c.c.conns[proposalCid]; RUnlock; then the stream
\* or the "no connection" error
DealStreamRead(t) ==
    /\ rc[t].pc = "read"
    /\ LET ok == rc[t].id \in DOMAIN conns
       IN  rc' = [rc EXCEPT ![t].pc = "returned", ![t].ok = ok,
                            ![t].s = IF ok THEN conns[rc[t].id] ELSE 0,
                            ![t].err = IF ok THEN NoErr ELSE "no connection to provider"]
    /\ connsLk' = [connsLk EXCEPT !.readers = @ \ {t}]
    /\ UNCHANGED <<pieceVars, queryVars, deals, conns, streams, pd, ncalls, begun, hpc, sent, removed>>

\* line 287: c.c.connsLk.Lock()
CloseStreamLock(t) ==
    /\ rc[t].pc = "lock"
    /\ LockFree
    /\ connsLk' = [connsLk EXCEPT !.writer = t]
    /\ rc' = [rc EXCEPT ![t].pc = "body"]
    /\ UNCHANGED <<pieceVars, queryVars, deals, conns, streams, pd, ncalls, begun, hpc, sent, removed>>

\* s.Close() on stream i: it is closed whatever Close returns
CloseOf(i) == [streams EXCEPT ![i].open = FALSE, ![i].closes = @ + 1]

\* CloseStream keeping the entry when Close fails
CloseStreamBodyKeepOnError(t) ==
    /\ rc[t].pc = "body"
    /\ LET id == rc[t].id
       IN  /\ IF id \notin DOMAIN conns
              THEN /\ rc' = [rc EXCEPT ![t].pc = "returned", ![t].err = NoErr]
                   /\ UNCHANGED <<conns, streams>>
              ELSE \E e \in {NoErr, "EClose"} :
                   /\ streams' = CloseOf(conns[id])
                   /\ conns' = IF e = NoErr THEN Without(conns, id) ELSE conns
                   /\ rc' = [rc EXCEPT ![t].pc = "returned", ![t].ok = TRUE,
                                       ![t].s = conns[id], ![t].err = e]
           /\ removed' = [removed EXCEPT ![id] = TRUE]
    /\ connsLk' = [connsLk EXCEPT !.writer = NoOne]
    /\ UNCHANGED <<pieceVars, queryVars, deals, pd, ncalls, begun, hpc, sent>>

\* CloseStream reporting a missing entry as an error
CloseStreamBodyMissingIsError(t) ==
    /\ rc[t].pc = "body"
    /\ LET id == rc[t].id
       IN  /\ IF id \notin DOMAIN conns
              THEN /\ rc' = [rc EXCEPT ![t].pc = "returned",
                                       ![t].err = "no connection to provider"]
                   /\ UNCHANGED <<conns, streams>>
              ELSE \E e \in {NoErr, "EClose"} :
                   /\ streams' = CloseOf(conns[id])
                   /\ conns' = Without(conns, id)
                   /\ rc' = [rc EXCEPT ![t].pc = "returned", ![t].ok = TRUE,
                                       ![t].s = conns[id], ![t].err = e]
           /\ removed' = [removed EXCEPT ![id] = TRUE]
    /\ connsLk' = [connsLk EXCEPT !.writer = NoOne]
    /\ UNCHANGED <<pieceVars, queryVars, deals, pd, ncalls, begun, hpc, sent>>

\* CloseStream closing the stream and leaving its entry in the map
CloseStreamBodyNoDelete(t) ==
    /\ rc[t].pc = "body"
    /\ LET id == rc[t].id
       IN  /\ IF id \notin DOMAIN conns
              THEN /\ rc' = [rc EXCEPT ![t].pc = "returned", ![t].err = NoErr]
                   /\ UNCHANGED <<conns, streams>>
              ELSE \E e \in {NoErr, "EClose"} :
                   /\ streams' = CloseOf(conns[id])
                   /\ conns' = conns
                   /\ rc' = [rc EXCEPT ![t].pc = "returned", ![t].ok = TRUE,
                                       ![t].s = conns[id], ![t].err = e]
           /\ removed' = [removed EXCEPT ![id] = TRUE]
    /\ connsLk' = [connsLk EXCEPT !.writer = NoOne]
    /\ UNCHANGED <<pieceVars, queryVars, deals, pd, ncalls, begun, hpc, sent>>

\* CloseStream deleting the entry without closing the stream
CloseStreamBodyNoClose(t) ==
    /\ rc[t].pc = "body"
    /\ LET id == rc[t].id
       IN  /\ IF id \notin DOMAIN conns
              THEN /\ rc' = [rc EXCEPT ![t].pc = "returned", ![t].err = NoErr]
                   /\ UNCHANGED <<conns, streams>>
              ELSE /\ streams' = streams
                   /\ conns' = Without(conns, id)
                   /\ rc' = [rc EXCEPT ![t].pc = "returned", ![t].ok = TRUE,
                                       ![t].s = conns[id], ![t].err = NoErr]
           /\ removed' = [removed EXCEPT ![id] = TRUE]
    /\ connsLk' = [connsLk EXCEPT !.writer = NoOne]
    /\ UNCHANGED <<pieceVars, queryVars, deals, pd, ncalls, begun, hpc, sent>>

\* lines 289-296: the lookup, s.Close(), the delete, the deferred Unlock and
\* the return
CloseStreamBody(t) ==
    /\ rc[t].pc = "body"
    /\ LET id == rc[t].id
       IN  /\ IF id \notin DOMAIN conns
              THEN /\ rc' = [rc EXCEPT ![t].pc = "returned", ![t].err = NoErr]
                   /\ UNCHANGED <<conns, streams>>
              ELSE \E e \in {NoErr, "EClose"} :
                   /\ streams' = CloseOf(conns[id])
                   /\ conns' = Without(conns, id)
                   /\ rc' = [rc EXCEPT ![t].pc = "returned", ![t].ok = TRUE,
                                       ![t].s = conns[id], ![t].err = e]
           /\ removed' = [removed EXCEPT ![id] = TRUE]
    /\ connsLk' = [connsLk EXCEPT !.writer = NoOne]
    /\ UNCHANGED <<pieceVars, queryVars, deals, pd, ncalls, begun, hpc, sent>>

\* a task holding the environment calls DealStream or CloseStream
CallerCalls(t) ==
    /\ \E op \in CallerOps(t), id \in Cids : RegCall(t, op, id)
    /\ UNCHANGED <<pieceVars, queryVars, deals, conns, connsLk, streams, pd, ncalls, begun, hpc, sent, removed>>

(***************************************************************************)
(* The engine's handling of the open event of deal d: the handler looks    *)
(* up the deal's stream, exchanges the proposal and the response on it,    *)
(* and closes the stream when the deal reaches a terminal state.           *)
(***************************************************************************)
SetState(d, st) == deals' = [deals EXCEPT ![d].State = st]

HandleOpen(d) ==
    /\ hpc[d] = "queued"
    /\ hpc' = [hpc EXCEPT ![d] = "lookup"]
    /\ SetState(d, "Open")
    /\ RegCall(Handler(d), "DealStream", d)
    /\ UNCHANGED <<pieceVars, queryVars, conns, connsLk, streams, pd, ncalls, begun, sent, removed>>

HandlerLookupDone(d) ==
    /\ hpc[d] = "lookup"
    /\ rc[Handler(d)].pc = "returned"
    /\ IF rc[Handler(d)].err = NoErr
       THEN hpc' = [hpc EXCEPT ![d] = "proposed"] /\ SetState(d, "Proposed")
       ELSE hpc' = [hpc EXCEPT ![d] = "failing"] /\ SetState(d, "Failing")
    /\ UNCHANGED <<pieceVars, queryVars, conns, connsLk, streams, pd, ncalls, begun, rc, sent, removed>>

HandlerClose(d) ==
    /\ hpc[d] \in {"proposed", "failing"}
    /\ RegCall(Handler(d), "CloseStream", d)
    /\ hpc' = [hpc EXCEPT ![d] = "closing"]
    /\ UNCHANGED <<pieceVars, queryVars, deals, conns, connsLk, streams, pd, ncalls, begun, sent, removed>>

HandlerCloseDone(d) ==
    /\ hpc[d] = "closing"
    /\ rc[Handler(d)].pc = "returned"
    /\ hpc' = [hpc EXCEPT ![d] = "done"]
    /\ \E st \in (IF deals[d].State = "Proposed" THEN {"Accepted", "Failed"} ELSE {"Error"}) :
         SetState(d, st)
    /\ UNCHANGED <<pieceVars, queryVars, conns, connsLk, streams, pd, ncalls, begun, rc, sent, removed>>

(***************************************************************************)
(* Client.GetAsk, lines 156-185. The ask stream s is a local of the call:  *)
(* no path of GetAsk calls s.Close().                                      *)
(***************************************************************************)
GaReturn(ask, e) == ga' = [ga EXCEPT !.pc = "returned", !.ask = ask, !.err = e]

\* the call and lines 157-160: c.net.NewAskStream(info.PeerID)
GetAskCall ==
    /\ ga.pc \in {"idle", "returned"}
    /\ nasks < MaxAsks
    /\ nasks' = nasks + 1
    /\ \E peer \in Peers, addr \in Addrs, ok \in BOOLEAN :
         IF ok
         THEN /\ askStreams' = Append(askStreams, [peer |-> peer, open |-> TRUE])
              /\ ga' = [IdleGa EXCEPT !.pc = "write", !.peer = peer, !.addr = addr,
                                      !.s = Len(askStreams) + 1, !.err = "pending"]
         ELSE /\ askStreams' = askStreams
              /\ ga' = [IdleGa EXCEPT !.pc = "returned", !.peer = peer, !.addr = addr,
                                      !.err = "failed to open stream to miner"]
    /\ UNCHANGED <<pieceVars, listVars, deals, conns, connsLk, streams, pd, ncalls, begun, hpc, rc, sent, removed>>

\* lines 162-165: s.WriteAskRequest(request)
WriteAskRequest ==
    /\ ga.pc = "write"
    /\ \E ok \in BOOLEAN :
         IF ok THEN ga' = [ga EXCEPT !.pc = "read"]
         ELSE GaReturn(NoAsk, "failed to send ask request")
    /\ UNCHANGED <<pieceVars, listVars, askStreams, nasks, deals, conns, connsLk, streams, pd, ncalls, begun, hpc, rc, sent, removed>>

\* lines 167-170: s.ReadAskResponse()
ReadAskResponse ==
    /\ ga.pc = "read"
    /\ \/ GaReturn(NoAsk, "failed to read ask response")
       \/ \E out \in AskResponses : ga' = [ga EXCEPT !.pc = "check", !.out = out]
    /\ UNCHANGED <<pieceVars, listVars, askStreams, nasks, deals, conns, connsLk, streams, pd, ncalls, begun, hpc, rc, sent, removed>>

\* the checks with the signature validated before the miner is compared
GetAskChecksSignatureFirst ==
    /\ ga.pc = "check"
    /\ IF ~ga.out.has THEN GaReturn(NoAsk, "got no ask back")
       ELSE IF ValidateAskSignature(ga.out) # NoErr
            THEN GaReturn(NoAsk, "ask was not properly signed")
       ELSE IF ga.out.Miner # ga.addr
            THEN GaReturn(NoAsk, "got back ask for wrong miner")
       ELSE GaReturn(ga.out, NoErr)
    /\ UNCHANGED <<pieceVars, listVars, askStreams, nasks, deals, conns, connsLk, streams, pd, ncalls, begun, hpc, rc, sent, removed>>

\* lines 172-184
GetAskChecks ==
    /\ ga.pc = "check"
    /\ IF ~ga.out.has THEN GaReturn(NoAsk, "got no ask back")
       ELSE IF ga.out.Miner # ga.addr
            THEN GaReturn(NoAsk, "got back ask for wrong miner")
       ELSE IF ValidateAskSignature(ga.out) # NoErr
            THEN GaReturn(NoAsk, "ask was not properly signed")
       ELSE GaReturn(ga.out, NoErr)
    /\ UNCHANGED <<pieceVars, listVars, askStreams, nasks, deals, conns, connsLk, streams, pd, ncalls, begun, hpc, rc, sent, removed>>

(***************************************************************************)
(* Client.ListProviders, lines 114-134, its goroutine, the reader of the   *)
(* channel it returns and the owner of the context.                        *)
(***************************************************************************)
\* lines 115-120 and 132: c.node.ListStorageProviders(ctx), make(chan), go
ListProvidersCall ==
    /\ lp.pc = "idle"
    /\ \/ lp' = [lp EXCEPT !.pc = "failed"]
       \/ \E ps \in ProviderLists : lp' = [pc |-> "loop", providers |-> ps, i |-> 1]
    /\ UNCHANGED <<pieceVars, askVars, received, outClosed, ctxDone, deals, conns, connsLk, streams, pd, ncalls, begun, hpc, rc, sent, removed>>

\* the owner of ctx cancels it
CancelCtx ==
    /\ ~ctxDone
    /\ ctxDone' = TRUE
    /\ UNCHANGED <<pieceVars, askVars, lp, received, outClosed, deals, conns, connsLk, streams, pd, ncalls, begun, hpc, rc, sent, removed>>

\* line 126, `case out <- *p`: the reader takes the next provider. select
\* picks among the cases that can proceed, so this one may be taken also when
\* ctx.Done() is ready
ListSend ==
    /\ lp.pc = "loop"
    /\ lp.i <= Len(lp.providers)
    /\ received' = Append(received, lp.providers[lp.i])
    /\ lp' = [lp EXCEPT !.i = @ + 1]
    /\ UNCHANGED <<pieceVars, askVars, outClosed, ctxDone, deals, conns, connsLk, streams, pd, ncalls, begun, hpc, rc, sent, removed>>

\* lines 127-128, `case <-ctx.Done(): return`, and the deferred close(out)
ListCancelled ==
    /\ lp.pc = "loop"
    /\ lp.i <= Len(lp.providers)
    /\ ctxDone
    /\ lp' = [lp EXCEPT !.pc = "done"]
    /\ outClosed' = TRUE
    /\ UNCHANGED <<pieceVars, askVars, received, ctxDone, deals, conns, connsLk, streams, pd, ncalls, begun, hpc, rc, sent, removed>>

\* line 124 with the range exhausted, and the deferred close(out) of line 123
ListEnd ==
    /\ lp.pc = "loop"
    /\ lp.i > Len(lp.providers)
    /\ lp' = [lp EXCEPT !.pc = "done"]
    /\ outClosed' = TRUE
    /\ UNCHANGED <<pieceVars, askVars, received, ctxDone, deals, conns, connsLk, streams, pd, ncalls, begun, hpc, rc, sent, removed>>

(***************************************************************************)
(* Specifications.                                                         *)
(***************************************************************************)
\* the piece pipeline parked at its initial state
PieceIdle == car = <<>> /\ InitStream /\ InitDisk

\* the facade with the engine's handlers
SpecClientInit == PieceIdle /\ InitClient

NextClient ==
    \/ \E c \in Clients : ProposeCall(c)
    \/ \E c \in Clients : ProposeBegin(c)
    \/ \E c \in Clients : NewDealStream(c)
    \/ \E c \in Clients : ProposeLock(c)
    \/ \E c \in Clients : ProposePut(c)
    \/ \E c \in Clients : ProposeSend(c)
    \/ \E d \in Cids : HandleOpen(d)
    \/ \E d \in Cids : HandlerLookupDone(d)
    \/ \E d \in Cids : HandlerClose(d)
    \/ \E d \in Cids : HandlerCloseDone(d)
    \/ \E t \in Handlers : DealStreamRLock(t)
    \/ \E t \in Handlers : DealStreamRead(t)
    \/ \E t \in Handlers : CloseStreamLock(t)
    \/ \E t \in Handlers : CloseStreamBody(t)

SpecClient == SpecClientInit /\ [][NextClient]_vars

\* the registry under arbitrary callers: ProposeStorageDeal (one caller of it)
\* puts, the holders of the environment get and remove
Proposer == {"client1"}

NextRegistry ==
    \/ \E c \in Proposer : ProposeCall(c)
    \/ \E c \in Proposer : ProposeBegin(c)
    \/ \E c \in Proposer : NewDealStream(c)
    \/ \E c \in Proposer : ProposeLock(c)
    \/ \E c \in Proposer : ProposePut(c)
    \/ \E c \in Proposer : ProposeSend(c)
    \/ \E t \in FreeCallers : CallerCalls(t)
    \/ \E t \in FreeCallers : DealStreamRLock(t)
    \/ \E t \in FreeCallers : DealStreamRead(t)
    \/ \E t \in FreeCallers : CloseStreamLock(t)
    \/ \E t \in FreeCallers : CloseStreamBody(t)

SpecRegistry == SpecClientInit /\ [][NextRegistry]_vars

\* GetAsk beside ProposeStorageDeal
NextAsk ==
    \/ GetAskCall \/ WriteAskRequest \/ ReadAskResponse \/ GetAskChecks
    \/ \E c \in Proposer : ProposeCall(c)
    \/ \E c \in Proposer : ProposeBegin(c)
    \/ \E c \in Proposer : NewDealStream(c)
    \/ \E c \in Proposer : ProposeLock(c)
    \/ \E c \in Proposer : ProposePut(c)
    \/ \E c \in Proposer : ProposeSend(c)

SpecAsk == SpecClientInit /\ [][NextAsk]_vars

\* ListProviders with the reader of its channel and the owner of its context
NextList == ListProvidersCall \/ CancelCtx \/ ListSend \/ ListCancelled \/ ListEnd

SpecList == SpecClientInit /\ [][NextList]_vars

(***************************************************************************)
(* The two modes run on the same payload and selector.                     *)
(***************************************************************************)
InitPiece == car \in Cars /\ InitStream /\ InitDisk /\ InitClient

NextPiece ==
    \/ PrepareCar \/ OsPipe \/ GoProducer \/ ConsumerRead \/ ConsumerDone
    \/ CloseRead \/ CheckErrs \/ WaitProducer
    \/ DumpWrite \/ DumpReturn \/ CloseWrite
    \/ CreateTemp \/ WriteCar \/ SeekStart \/ CommitFile

SpecPiece == InitPiece /\ [][NextPiece]_vars

(***************************************************************************)
(* Streaming mode under a fair scheduler. The two tasks are goroutines:    *)
(* a step that stays possible is eventually taken. Fairness asks for no    *)
(* failure: the steps it forces are those of a run in which nothing fails  *)
(* of its own accord.                                                      *)
(***************************************************************************)
\* line 78 returning because the reader has its bytes or met EOF
ConsumerEnds ==
    /\ Len(rbuf) = pieceSize \/ (pipe = <<>> /\ ~wOpen)
    /\ ConsumerDone

\* line 72 returning because Dump wrote everything or a write failed
DumpEnds == DumpReturn /\ werr' # "EDump"

StreamProgress ==
    \/ PrepareCar \/ OsPipe \/ GoProducer \/ ConsumerRead \/ ConsumerEnds
    \/ CloseRead \/ CheckErrs \/ WaitProducer
    \/ DumpWrite \/ DumpEnds \/ CloseWrite

NextStream ==
    \/ PrepareCar \/ OsPipe \/ GoProducer \/ ConsumerRead \/ ConsumerDone
    \/ CloseRead \/ CheckErrs \/ WaitProducer
    \/ DumpWrite \/ DumpReturn \/ CloseWrite

SpecStreamFair == InitPiece /\ [][NextStream]_vars /\ WF_vars(StreamProgress)

\* streaming mode when nothing fails of its own accord: PrepareCar and
\* os.Pipe succeed, Dump writes its Size() bytes, both closes succeed and
\* the commitment function succeeds on the bytes it was declared
PrepareCarOk == PrepareCar /\ spc' = "pipe"
OsPipeOk == OsPipe /\ spc' = "go"
ConsumerDoneOk == ConsumerEnds /\ cres' = GeneratePieceCommitment(rbuf, pieceSize, FALSE)
CloseReadOk == CloseRead /\ closeErr' = NoErr
CloseWriteOk == CloseWrite /\ perrs'.close = NoErr

NextStreamOk ==
    \/ PrepareCarOk \/ OsPipeOk \/ GoProducer \/ ConsumerRead \/ ConsumerDoneOk
    \/ CloseReadOk \/ CheckErrs \/ WaitProducer
    \/ DumpWrite \/ DumpEnds \/ CloseWriteOk

SpecStreamOk == InitPiece /\ [][NextStreamOk]_vars /\ WF_vars(NextStreamOk)

(***************************************************************************)
(* Properties of the piece preparation pipeline.                           *)
(***************************************************************************)
\* the streaming call went through the error checks of lines 80-90
SChecked == spc = "returned" /\ cres.err # "pending"

ProducerErrs == {"EPIPE", "EDump", "EWClose"}

\* C1: in streaming mode, once the producer task has been launched, the call
\* never returns while the producer is still running
C1_ReturnsAfterProducerDone ==
    (spc = "returned" /\ ppc # "none") => ppc = "done"

\* C2: in streaming mode, when the consumer path and the read-end close both
\* succeeded, the call returns only after the producer finished; it returns
\* the producer's error (Dump's, else the write-end close's) and no
\* commitment if the producer had one, and a commitment only if consumer,
\* read-end close, Dump and write-end close all succeeded
C2_JointSuccess ==
    /\ (SChecked /\ cres.err = NoErr /\ closeErr = NoErr) =>
          /\ ppc = "done"
          /\ IF perrs.dump # NoErr THEN sres = Ret(Undef, 0, perrs.dump)
             ELSE IF perrs.close # NoErr THEN sres = Ret(Undef, 0, perrs.close)
             ELSE sres = Ret(cres.cid, cres.size, NoErr) /\ sres.cid # Undef
    /\ (spc = "returned" /\ sres.err = NoErr) =>
          /\ sres.cid # Undef
          /\ cres.err = NoErr /\ closeErr = NoErr
          /\ perrs.dump = NoErr /\ perrs.close = NoErr

C2_Witness ==
    /\ SChecked /\ cres.err = NoErr /\ closeErr = NoErr
    /\ perrs.dump = NoErr /\ perrs.close = "EWClose"
    /\ sres = Ret(Undef, 0, "EWClose")

\* C3: in streaming mode the reported error follows the precedence consumer
\* error, then read-end close error, then producer error
C3_ErrorPrecedence ==
    SChecked =>
        /\ cres.err # NoErr => sres = Ret(Undef, 0, cres.err)
        /\ (cres.err = NoErr /\ closeErr # NoErr) => sres = Ret(Undef, 0, closeErr)
        /\ sres.err = "ERClose" => cres.err = NoErr
        /\ sres.err \in ProducerErrs => (cres.err = NoErr /\ closeErr = NoErr)

C3_Witness ==
    /\ SChecked /\ cres.err = "ECommit" /\ closeErr = "ERClose"
    /\ ppc = "done" /\ werr = "EDump"
    /\ sres.err = "ECommit"

\* the disk-buffered call returned after the temporary artifact was created
DCreated == dpc = "returned" /\ fPath # NoPath

\* C4 as stated: after the temporary artifact was created, it exists in the
\* file store when the call returns if and only if the call succeeded
C4_ArtifactIffSuccess ==
    DCreated => (fPath \in DOMAIN store <=> dres.err = NoErr)

\* C4 as amended: on every failure exit after creation the artifact has been
\* closed and Delete has been called on its path, and it is gone from the
\* store unless that Delete failed; on success it is left in place, closed,
\* never deleted, and its path is the one returned
C4_CleanupOnEveryFailure ==
    DCreated =>
        IF dres.err = NoErr
        THEN /\ fPath \in DOMAIN store /\ deleted = "no"
             /\ dres.path = fPath /\ dres.cid # Undef
        ELSE /\ closed /\ ~fOpen /\ deleted # "no"
             /\ (fPath \in DOMAIN store <=> deleted = "failed")
             /\ dres.path = NoPath /\ dres.cid = Undef

C4_Witness ==
    /\ DCreated /\ dres.err = "ESeek"
    /\ deleted = "ok" /\ fPath \notin DOMAIN store /\ OtherPath \in DOMAIN store

\* C5: for the same payload and selector, streaming mode and disk-buffered
\* mode return the same (commitment, paddedSize) whenever both succeed
C5_ModesAgree ==
    (spc = "returned" /\ dpc = "returned" /\ sres.err = NoErr /\ dres.err = NoErr) =>
        /\ sres.cid = dres.cid
        /\ sres.size = dres.size

C5_Witness ==
    /\ spc = "returned" /\ dpc = "returned"
    /\ sres.err = NoErr /\ dres.err = NoErr
    /\ Len(car) = 2 /\ car[1] # car[2]

(***************************************************************************)
(* Properties of the facade and of the connection registry.                *)
(***************************************************************************)
StreamIds == 1..Len(streams)
Returned(c) == pd[c].pc = "returned"

\* the streams opened, the records begun and the open events sent by call n
StreamsBy(n) == {i \in StreamIds : streams[i].by = n}
DealsBy(n) == {d \in DOMAIN deals : deals[d].by = n}
SentBy(n) == {d \in Cids : n \in sent[d]}

\* C6: in every execution of ProposeStorageDeal the deal record is begun (in
\* the unknown state) and the provider stream is registered under the
\* proposal identifier before the open event is sent, so the open-event
\* handler's lookup of the deal's stream finds it
C6_BeginAndPutBeforeOpen ==
    /\ \A c \in Clients :
         pd[c].pc = "send" =>
            /\ pd[c].cid \in DOMAIN deals
            /\ deals[pd[c].cid].State = "Unknown"
            /\ pd[c].cid \in DOMAIN conns
            /\ conns[pd[c].cid] = pd[c].s
    /\ \A d \in Cids :
         /\ sent[d] # {} => d \in DOMAIN deals
         /\ hpc[d] = "queued" =>
               /\ deals[d].State = "Unknown"
               /\ d \in DOMAIN conns
               /\ streams[conns[d]].by = deals[d].by
         /\ (hpc[d] = "lookup" /\ rc[Handler(d)].pc = "returned") =>
               /\ rc[Handler(d)].err = NoErr
               /\ rc[Handler(d)].s \in StreamsBy(deals[d].by)
         /\ hpc[d] # "failing"

C6_Witness ==
    \E d \in Cids :
        /\ hpc[d] = "proposed"
        /\ rc[Handler(d)].op = "DealStream"
        /\ rc[Handler(d)].err = NoErr
        /\ streams[rc[Handler(d)].s].open

\* C7: a ProposeStorageDeal that fails before begin (commitment, signing,
\* identifier derivation) leaves no deal record of its own, has opened no
\* stream and registered nothing; one that fails at stream open or at the
\* open event leaves its deal record in the engine, in the last committed
\* (unknown) state, returned by get and list
C7_FailureTraces ==
    \A c \in Clients :
        Returned(c) =>
            /\ pd[c].ret \in {"ECommP", "ESign", "EIpld"} =>
                  /\ DealsBy(pd[c].n) = {}
                  /\ StreamsBy(pd[c].n) = {}
                  /\ SentBy(pd[c].n) = {}
                  /\ \A d \in DOMAIN conns : streams[conns[d]].by # pd[c].n
            /\ pd[c].ret \in {"EStream", "ESend"} =>
                  /\ DealsBy(pd[c].n) = {pd[c].cid}
                  /\ GetInProgressDeal(pd[c].cid) = [deal |-> deals[pd[c].cid], err |-> NoErr]
                  /\ deals[pd[c].cid] \in ListInProgressDeals
                  /\ deals[pd[c].cid].State = "Unknown"
                  /\ SentBy(pd[c].n) = {}
            /\ pd[c].ret = "EStream" => StreamsBy(pd[c].n) = {}

C7_Witness ==
    \E c1, c2 \in Clients :
        /\ Returned(c1) /\ pd[c1].ret = "ESign"
        /\ Returned(c2) /\ pd[c2].ret = "ESend"
        /\ pd[c2].cid \in DOMAIN deals

\* C8: a begin under an identifier that already exists fails and leaves the
\* first record as it was; a ProposeStorageDeal whose identifier is already
\* tracked returns an error, opens no stream, does not replace the first
\* deal's registry entry and sends no open event
C8_DuplicateProposal ==
    /\ \A d \in DOMAIN deals : [deals[d] EXCEPT !.State = "Unknown"] = begun[d]
    /\ \A i \in StreamIds : DealsBy(streams[i].by) # {}
    /\ \A d \in DOMAIN conns : d \in DOMAIN deals /\ streams[conns[d]].by = deals[d].by
    /\ \A d \in Cids : \A n \in sent[d] : d \in DealsBy(n)
    /\ \A c \in Clients :
         (Returned(c) /\ pd[c].ret = "EBegin") =>
            /\ pd[c].cid \in DOMAIN deals
            /\ DealsBy(pd[c].n) = {}
            /\ StreamsBy(pd[c].n) = {}
            /\ SentBy(pd[c].n) = {}

C8_Witness ==
    \E c \in Clients :
        /\ Returned(c) /\ pd[c].ret = "EBegin"
        /\ pd[c].cid \in DOMAIN conns
        /\ streams[conns[pd[c].cid]].open
        /\ sent[pd[c].cid] # {}

\* C9: once a CloseStream(id) has completed, and until a later put for the
\* same id, the registry has no entry for id and every DealStream(id) fails
\* with the "no connection" error, also when the stream's Close failed
C9_GetAfterRemoveFails ==
    /\ \A d \in Cids : removed[d] => d \notin DOMAIN conns
    /\ \A t \in RegCallers :
         (rc[t].op = "DealStream" /\ rc[t].pc = "returned" /\ rc[t].afterRemove) =>
            /\ rc[t].err = "no connection to provider"
            /\ rc[t].s = 0

C9_Witness ==
    \E t1, t2 \in RegCallers :
        /\ rc[t1].op = "CloseStream" /\ rc[t1].pc = "returned" /\ rc[t1].err = "EClose"
        /\ rc[t2].op = "DealStream" /\ rc[t2].pc = "returned" /\ rc[t2].afterRemove
        /\ rc[t2].id = rc[t1].id
        /\ rc[t2].err = "no connection to provider"

\* C10: a CloseStream for an id that has no entry returns no error, closes
\* no stream and leaves the registry as it was
C10_RemoveMissingIsNoOp ==
    [][\A t \in RegCallers :
         (rc[t].pc = "body" /\ rc[t].id \notin DOMAIN conns /\ rc'[t].pc = "returned") =>
            /\ rc'[t].err = NoErr
            /\ conns' = conns
            /\ streams' = streams]_vars

C10_Witness ==
    \E t \in RegCallers :
        /\ rc[t].op = "CloseStream" /\ rc[t].pc = "returned"
        /\ ~rc[t].ok /\ rc[t].err = NoErr
        /\ \E d \in DOMAIN conns : d # rc[t].id /\ streams[conns[d]].open

\* the tasks inside a map access: the puts and the removes write, the gets read
PutWriters == {c \in Clients : pd[c].pc = "put"}
RemoveWriters == {t \in RegCallers : rc[t].pc = "body"}
MapReaders == {t \in RegCallers : rc[t].pc = "read"}

\* every map access is made holding the registry lock in the mode it needs,
\* and no write overlaps another access
MapAccessExclusive ==
    /\ Cardinality(PutWriters) + Cardinality(RemoveWriters) <= 1
    /\ (PutWriters # {} \/ RemoveWriters # {}) => MapReaders = {}
    /\ \A c \in PutWriters : connsLk.writer = c /\ connsLk.readers = {}
    /\ \A t \in RemoveWriters : t = connsLk.writer /\ connsLk.readers = {}
    /\ \A t \in MapReaders : t \in connsLk.readers /\ connsLk.writer = NoOne

\* every change of the map is the whole effect of one put or one remove, made
\* by the holder of the exclusive lock; every get returns what the map holds
\* at the step it reads
MapStepSequential ==
    /\ conns' # conns =>
          \/ \E c \in PutWriters :
                /\ connsLk.writer = c
                /\ conns' = Put(conns, pd[c].cid, pd[c].s)
          \/ \E t \in RemoveWriters :
                /\ t = connsLk.writer
                /\ conns' = Without(conns, rc[t].id)
    /\ \A t \in MapReaders :
          rc'[t].pc = "returned" =>
             /\ conns' = conns
             /\ rc'[t].ok = (rc[t].id \in DOMAIN conns)
             /\ rc'[t].ok => rc'[t].s = conns[rc[t].id]

\* C11: every access to the connection map is made holding the registry
\* lock, insertions and deletions exclusively and lookups shared, so no map
\* write overlaps another map read or write, and the map is at every step the
\* result of applying the puts and removes one after the other in the order
\* they took the lock
C11_MapAccessUnderLock ==
    []MapAccessExclusive /\ [][MapStepSequential]_vars

C11_Witness ==
    \E c \in PutWriters, t1, t2 \in RegCallers :
        /\ rc[t1].pc = "lock" /\ rc[t1].id = pd[c].cid
        /\ rc[t2].pc = "rlock" /\ rc[t2].id = pd[c].cid
        /\ DOMAIN conns # {}

\* the live streams: opened and not yet closed
OpenStreams == {i \in StreamIds : streams[i].open}
\* the live streams opened for deal identifier d
OpenStreamsOf(d) == {i \in OpenStreams : d \in DealsBy(streams[i].by)}

\* C12: each deal identifier has at most one live provider stream, and every
\* live stream is the registry's entry for its identifier (or is on its way
\* into the registry, between NewDealStream and the put of the same call):
\* no put replaces a still-open stream and no remove leaves one open
C12_OneLiveStreamPerId ==
    /\ \A d \in Cids : Cardinality(OpenStreamsOf(d)) <= 1
    /\ \A i \in OpenStreams :
          \/ \E d \in DOMAIN conns : conns[d] = i /\ OpenStreamsOf(d) = {i}
          \/ \E c \in Clients : pd[c].pc \in {"lock", "put"} /\ pd[c].s = i
                                  /\ pd[c].cid \notin DOMAIN conns

C12_Witness ==
    \E d1, d2 \in Cids :
        /\ d1 # d2
        /\ d1 \in DOMAIN conns /\ OpenStreamsOf(d1) = {conns[d1]}
        /\ hpc[d2] = "done" /\ d2 \notin DOMAIN conns
        /\ \E i \in StreamIds : d2 \in DealsBy(streams[i].by) /\ streams[i].closes = 1
        /\ OpenStreamsOf(d2) = {}

(***************************************************************************)
(* Properties of GetAsk and ListProviders.                                 *)
(***************************************************************************)
\* the errors GetAsk returns after it has read a response
AskCheckErrs == {"got no ask back", "got back ask for wrong miner", "ask was not properly signed"}

\* what the checks of a read response must come to: the missing ask first,
\* then the miner, then the signature
AskVerdict(out, addr) ==
    IF ~out.has THEN "got no ask back"
    ELSE IF out.Miner # addr THEN "got back ask for wrong miner"
    ELSE IF ~out.signed THEN "ask was not properly signed"
    ELSE NoErr

AskReturnsValidated ==
    ga.pc = "returned" =>
        /\ ga.err = NoErr =>
              /\ ga.ask = ga.out /\ ga.ask.has
              /\ ga.ask.Miner = ga.addr
              /\ ValidateAskSignature(ga.ask) = NoErr
        /\ ga.err # NoErr => ga.ask = NoAsk
        /\ ga.err \in AskCheckErrs \cup {NoErr} => ga.err = AskVerdict(ga.out, ga.addr)

AskStepLeavesDeals ==
    (ga' # ga \/ askStreams' # askStreams) =>
        UNCHANGED <<deals, conns, connsLk, streams, begun, hpc, sent>>

\* C13: GetAsk returns an ask only if the response carries one, its miner is
\* the queried provider's address and the chain node validated its
\* signature; a missing ask, a wrong miner or a bad signature each yields an
\* error and no ask, the miner being checked before the signature; and no
\* step of GetAsk changes the engine's deal records or the registry
C13_AskValidatedNoSideEffect ==
    []AskReturnsValidated /\ [][AskStepLeavesDeals]_vars

C13_Witness ==
    /\ ga.pc = "returned" /\ ga.err = "got back ask for wrong miner"
    /\ ga.out.has /\ ~ga.out.signed /\ ga.out.Miner # ga.addr
    /\ DOMAIN deals # {} /\ DOMAIN conns # {}

\* C20: every ask stream opened by GetAsk is closed by the time GetAsk
\* returns, on the success path and on each error path
C20_AskStreamsClosedOnReturn ==
    ga.pc = "returned" => \A i \in 1..Len(askStreams) : ~askStreams[i].open

\* C14: once the context has been cancelled no further provider is emitted
\* on the output channel; and a channel closed without cancellation has
\* delivered all the providers, in the chain node's order, each exactly once
C14_NoEmitAfterCancel ==
    /\ []((outClosed /\ ~ctxDone) => received = lp.providers)
    /\ [][ctxDone => received' = received]_vars

(***************************************************************************)
(* Further properties of the piece preparation pipeline.                   *)
(***************************************************************************)
\* a sub-step of the returned disk-buffered call failed: the temporary file
\* was not created, or a failure exit ran cleanup(), or a Close of the
\* artifact failed
DStepFailed ==
    \/ fPath = NoPath
    \/ deleted # "no"
    \/ fcloseErr \notin {"none", NoErr}

\* C15: in disk-buffered mode, whenever a sub-step fails (temp creation,
\* archive write, seek, commitment, or the final close of the artifact after
\* a successful commitment) the call returns a non-nil error
C15_NoErrorSwallowed ==
    (dpc = "returned" /\ DStepFailed) => dres.err # NoErr

\* the consumer path of the streaming call has finished
ConsumerFinished == spc \in {"check", "wait"} \/ SChecked

\* C16: in streaming mode the producer task terminates in every execution:
\* once the consumer path has finished the read end of the pipe is closed,
\* and a launched producer, also one blocked on a full pipe, gets out of Dump
\* and closes the write end
C16_ProducerTerminates ==
    /\ [](ConsumerFinished => ~rOpen)
    /\ [](ppc = "done" => ~wOpen)
    /\ (ppc = "dump") ~> (ppc = "done")

C16_Witness ==
    /\ ppc = "done" /\ perrs.dump = "EPIPE"
    /\ Len(pipe) = PipeCap /\ dumped < Len(car)
    /\ ConsumerFinished

\* C18: when nothing fails of its own accord, streaming mode terminates
\* under every interleaving of producer and consumer and returns the
\* commitment of the padded archive with no error
C18_NoSpuriousFailure ==
    /\ [](spc = "returned" =>
            /\ sres = Ret(PieceCID(PaddedReader(car, Len(car))), PaddedSize(Len(car)), NoErr)
            /\ ppc = "done")
    /\ <>(spc = "returned")

C18_Witness ==
    /\ spc = "wait" /\ ~rOpen
    /\ ppc = "dump" /\ wOpen
    /\ Len(car) = MaxCarLen /\ cres.err = NoErr

(***************************************************************************)
(* Further properties of the facade and of the connection registry.        *)
(***************************************************************************)
\* largest archive length whose piece size the collateral is computed for
MaxPieceBytes == 300

\* the proposals ProposeStorageDeal has handed to the engine
Proposals == {deals[d].Proposal : d \in DOMAIN deals}

\* C17 as stated: in every proposal the provider collateral equals the
\* PieceSize term of the same proposal
C17_CollateralIsPieceSizeTerm ==
    \A prop \in Proposals : prop.ProviderCollateral = prop.PieceSize

\* the proposal built for the piece size of every archive length up to the bound
CollateralOfEverySize ==
    \A n \in 0..MaxPieceBytes :
        LET prop == DealProposal(Undef, PaddedSize(n))
        IN  /\ prop.ProviderCollateral = PaddedSize(n)
            /\ prop.ProviderCollateral = Unpadded(prop.PieceSize)
            /\ prop.ProviderCollateral < prop.PieceSize

\* C17 as amended: the provider collateral is the unpadded piece size the
\* pipeline returned, while the PieceSize term is that size padded: the
\* collateral is PieceSize.Unpadded(), always below the PieceSize term
C17_CollateralIsUnpaddedSize ==
    /\ \A d \in DOMAIN deals :
          LET prop == deals[d].Proposal
              size == CommP(deals[d].DataRef).size
          IN  /\ prop.ProviderCollateral = size
              /\ prop.PieceSize = Padded(size)
              /\ prop.ProviderCollateral = Unpadded(prop.PieceSize)
    /\ CollateralOfEverySize

C17_Witness ==
    \E d \in DOMAIN deals :
        /\ deals[d].Proposal.PieceSize = Quantum + 1
        /\ deals[d].Proposal.ProviderCollateral = Quantum
        /\ sent[d] # {}

\* the CloseStream calls that found the entry and returned its Close result
ClosersOf(i) ==
    {t \in RegCallers : rc[t].op = "CloseStream" /\ rc[t].pc = "returned"
                           /\ rc[t].ok /\ rc[t].s = i}

\* no stream is closed twice, no entry of the map is a stream already closed,
\* and a stream's Close result is held by at most one call
ClosedOnce ==
    /\ \A i \in StreamIds :
          /\ streams[i].closes <= 1
          /\ Cardinality(ClosersOf(i)) <= streams[i].closes
    /\ \A d \in DOMAIN conns : streams[conns[d]].open /\ streams[conns[d]].closes = 0

\* a CloseStream that finds the entry closes that stream once, deletes the
\* entry whatever Close returned and returns Close's result; one that finds
\* no entry closes nothing and returns no error
CloseStreamStep ==
    \A t \in RegCallers :
        (rc[t].pc = "body" /\ rc'[t].pc = "returned") =>
            IF rc[t].id \in DOMAIN conns
            THEN /\ streams' = CloseOf(conns[rc[t].id])
                 /\ streams'[conns[rc[t].id]].closes = 1
                 /\ rc[t].id \notin DOMAIN conns'
                 /\ rc'[t].ok /\ rc'[t].s = conns[rc[t].id]
                 /\ rc'[t].err \in {NoErr, "EClose"}
            ELSE /\ streams' = streams
                 /\ ~rc'[t].ok /\ rc'[t].err = NoErr

\* C19: under any interleaving of concurrent CloseStream calls for the same
\* identifier the registered stream's Close is invoked exactly once and one
\* call returns its result, the others returning no error; the entry is
\* deleted also when Close returns an error
C19_CloseExactlyOnce ==
    []ClosedOnce /\ [][CloseStreamStep]_vars

C19_Witness ==
    \E t1, t2 \in FreeCallers :
        /\ rc[t1].op = "CloseStream" /\ rc[t1].pc = "returned"
        /\ rc[t1].ok /\ rc[t1].err = "EClose" /\ streams[rc[t1].s].closes = 1
        /\ rc[t2].op = "CloseStream" /\ rc[t2].pc = "returned" /\ rc[t2].id = rc[t1].id
        /\ ~rc[t2].ok /\ rc[t2].err = NoErr
        /\ rc[t1].id \notin DOMAIN conns

====
